---- MODULE Spec2Model ----
(***************************************************************************)
(* Model of src/knn_predictor.py: the weighted kNN classifier knn_predict  *)
(* and the BenchmarkModule hooks training_step, training_epoch_end,        *)
(* validation_step and validation_epoch_end.                               *)
(*                                                                         *)
(* Numbers.  Floats are modelled in fixed point.  An embedding component   *)
(* is an integer count of 1/UnitScale, a similarity (a dot product of two  *)
(* embeddings) a count of 1/(UnitScale*UnitScale), the temperature knn_t a *)
(* count of 1/TScale, a weight exp(s/knn_t) a count of 1/ExpScale, the     *)
(* decay rate taw a count of 1/TawDen.  An accuracy is the exact fraction  *)
(* <<numerator, denominator>> in lowest terms.                             *)
(*                                                                         *)
(* Tensors.  A 2-d tensor is [shape |-> <<rows, cols>>, data |-> sequence  *)
(* of rows]; a 1-d tensor is [shape |-> <<n>>, data |-> sequence].         *)
(*                                                                         *)
(* Each hook is one action: the hooks run on one thread and a hook is      *)
(* left either by its return or by the exception that ends it.             *)
(***************************************************************************)
EXTENDS Integers, Sequences, FiniteSets, TLC

VARIABLES
    dataloader_kNN,   \* self.dataloader_kNN: the reference batches
    knn_k,            \* self.knn_k
    knn_t,            \* self.knn_t, in 1/TScale
    tie_low,          \* the build's order among equal keys in topk / argsort
    resnet_training,  \* self.resnet.training
    feature_bank,     \* self.feature_bank (absent, a list, or a tensor)
    targets_bank,     \* self.targets_bank (absent, a list, or a tensor)
    max_accuracy,     \* self.max_accuracy
    outputs,          \* what the trainer has collected from validation_step
    ret,              \* how the last hook call ended
    knn,              \* the last validation_step's call of knn_predict
    ready,            \* some training_epoch_end has returned normally
    pass_max,         \* the best accuracy of a completed validation pass
    online_params,    \* self.online_resnet.parameters()
    target_params,    \* self.target_resnet.parameters()
    taw,              \* self.taw, in 1/TawDen
    step              \* self.step

vars == <<dataloader_kNN, knn_k, knn_t, tie_low, resnet_training, feature_bank,
          targets_bank, max_accuracy, outputs, ret, knn, ready, pass_max,
          online_params, target_params, taw, step>>

knnVars == <<dataloader_kNN, knn_k, knn_t, tie_low, resnet_training,
             feature_bank, targets_bank, max_accuracy, outputs, ret, knn,
             ready, pass_max>>

trainVars == <<online_params, target_params, taw, step>>

(***************************************************************************)
(* Bounds of the model.                                                    *)
(***************************************************************************)
MaxBatches == 2       \* batches the reference iterator yields, at most
MaxBatchSize == 2     \* samples in one batch, at most
MaxValBatches == 2    \* validation batches collected in one pass, at most
MaxK == 3             \* largest knn_k tried
MaxBank == 4          \* reference samples in the bank knn_predict is tried on
MaxStep == 4          \* training steps taken, at most
MaxParam == 1         \* largest parameter value tried

(***************************************************************************)
(* Scales of the fixed-point numbers.                                      *)
(***************************************************************************)
UnitScale == 10
TScale == 10
ExpScale == 10000
ExpTerms == 10
TawDen == 4
TotalSteps == 2
classes == 2

\* float('inf') and float('nan') among the weights, which are otherwise >= 0
Inf == -1
NaN == -2

SumSeq(s) ==
    LET RECURSIVE go(_)
        go(i) == IF i = 0 THEN 0 ELSE s[i] + go(i - 1)
    IN  go(Len(s))

\* the sequence <<F(1), ..., F(n)>>
Tab(F(_), n) ==
    LET RECURSIVE go(_)
        go(i) == IF i = 0 THEN <<>> ELSE Append(go(i - 1), F(i))
    IN  go(n)

RECURSIVE Concat(_)
Concat(ss) == IF ss = <<>> THEN <<>> ELSE Head(ss) \o Concat(Tail(ss))

(***************************************************************************)
(* The encoder self.resnet, an opaque function of the image: each image    *)
(* has one raw feature row of dimension 2.                                 *)
(***************************************************************************)
Images == 1 .. 4

RawFeature(img) ==
    CASE img = 1 -> <<3, 4>>
      [] img = 2 -> <<8, 6>>
      [] img = 3 -> <<0, 5>>
      [] OTHER   -> <<-4, 3>>

\* self.resnet(img): [B, D]
Resnet(imgs) ==
    [shape |-> <<Len(imgs), 2>>,
     data  |-> Tab(LAMBDA b : RawFeature(imgs[b]), Len(imgs))]

\* Tensor.squeeze(): every dimension of size 1 is removed
Squeeze(x) ==
    IF Len(x.shape) = 2 /\ x.shape[1] = 1 /\ x.shape[2] = 1
      THEN [shape |-> <<>>, data |-> <<x.data[1][1]>>]
    ELSE IF Len(x.shape) = 2 /\ x.shape[1] = 1
      THEN [shape |-> <<x.shape[2]>>, data |-> x.data[1]]
    ELSE IF Len(x.shape) = 2 /\ x.shape[2] = 1
      THEN [shape |-> <<x.shape[1]>>,
            data  |-> Tab(LAMBDA b : x.data[b][1], x.shape[1])]
    ELSE x

\* the Euclidean norm of a row whose norm is a whole number
Norm(row) ==
    LET sq == SumSeq(Tab(LAMBDA i : row[i] * row[i], Len(row)))
    IN  CHOOSE n \in 0 .. sq : n * n <= sq /\ (n + 1) * (n + 1) > sq

\* F.normalize(row): row / max(norm, eps), in 1/UnitScale
NormalizeRow(row) ==
    LET n == Norm(row)
    IN  Tab(LAMBDA i : IF n = 0 THEN 0 ELSE (UnitScale * row[i]) \div n,
            Len(row))

\* F.normalize(x, dim=1): IndexError when x has no dimension 1
CanNormalize(x) == Len(x.shape) >= 2

Normalize(x) ==
    [shape |-> x.shape,
     data  |-> Tab(LAMBDA b : NormalizeRow(x.data[b]), x.shape[1])]

\* torch.cat(list, dim=0) of 2-d tensors with equal column counts
Cat2(list) ==
    LET rows == Concat(Tab(LAMBDA i : list[i].data, Len(list)))
    IN  [shape |-> <<Len(rows), list[1].shape[2]>>, data |-> rows]

\* torch.cat(list, dim=0) of 1-d tensors
Cat1(list) ==
    LET xs == Concat(Tab(LAMBDA i : list[i].data, Len(list)))
    IN  [shape |-> <<Len(xs)>>, data |-> xs]

\* Tensor.t(): a 2-d tensor is transposed, a 1-d tensor is returned as is
Transpose(x) ==
    IF Len(x.shape) < 2 THEN x
    ELSE [shape |-> <<x.shape[2], x.shape[1]>>,
          data  |-> Tab(LAMBDA d : Tab(LAMBDA n : x.data[n][d], x.shape[1]),
                        x.shape[2])]

\* torch.mm(a, b): [B, D] x [D, N] -> [B, N]
MatMul(a, b) ==
    [shape |-> <<a.shape[1], b.shape[2]>>,
     data  |-> Tab(LAMBDA i :
                     Tab(LAMBDA n :
                            SumSeq(Tab(LAMBDA d : a.data[i][d] * b.data[d][n],
                                       a.shape[2])),
                         b.shape[2]),
                   a.shape[1])]

(***************************************************************************)
(* knn_predict.                                                            *)
(***************************************************************************)
\* exp(num / den) for den > 0, in 1/ExpScale: the power series, ExpTerms terms
ExpFix(num, den) ==
    LET RECURSIVE go(_, _)
        go(i, term) ==
            IF i > ExpTerms THEN 0
            ELSE term + go(i + 1, (term * num) \div (den * (i + 1)))
    IN  go(0, ExpScale)

\* (sim_weight / knn_t).exp() of one similarity s: x / 0 is inf, -inf or nan
Weight(s, t) ==
    IF t = 0 THEN (IF s > 0 THEN Inf ELSE IF s < 0 THEN 0 ELSE NaN)
    ELSE IF t > 0 THEN ExpFix(s * TScale, UnitScale * UnitScale * t)
    ELSE ExpFix((0 - s) * TScale, UnitScale * UnitScale * (0 - t))

\* float product one_hot * weight, one_hot in {0, 1}: 0 * inf is nan
MulF(oh, w) ==
    IF oh = 1 THEN w ELSE IF w \in {Inf, NaN} THEN NaN ELSE 0

\* float sum
AddF(a, b) ==
    IF a = NaN \/ b = NaN THEN NaN
    ELSE IF a = Inf \/ b = Inf THEN Inf
    ELSE a + b

\* the order a descending sort puts floats in: nan first, then inf
GreaterF(a, b) ==
    LET key(x) == IF x = NaN THEN 2 ELSE IF x = Inf THEN 1 ELSE 0
    IN  key(a) > key(b) \/ (key(a) = 0 /\ key(b) = 0 /\ a > b)

\* the indices of xs in descending order of value; equal values in the
\* build's order (low: lower index first)
Descending(xs, low) ==
    LET before(i, j) ==
            \/ GreaterF(xs[i], xs[j])
            \/ /\ ~GreaterF(xs[j], xs[i])
               /\ IF low THEN i < j ELSE i > j
        pos(i) == 1 + Cardinality({j \in 1 .. Len(xs) : before(j, i)})
    IN  Tab(LAMBDA p : CHOOSE i \in 1 .. Len(xs) : pos(i) = p, Len(xs))

\* sim_matrix.topk(k, dim=-1) on one row: the indices of the k largest
TopK(row, k, low) == SubSeq(Descending(row, low), 1, k)

\* argsort without descending=True: the classes from the lowest score up
ArgsortAscending(scores, low) ==
    LET d == Descending(scores, low)
    IN  Tab(LAMBDA p : d[Len(scores) + 1 - p] - 1, Len(scores))

\* pred_scores.argsort(dim=-1, descending=True) on one row: class indices
Argsort(scores, low) ==
    LET d == Descending(scores, low)
    IN  Tab(LAMBDA p : d[p] - 1, Len(scores))

\* one row of pred_scores: for each class the sum over the k selected
\* neighbours of one_hot * weight
ScoreRow(labs, ws, cls) ==
    LET RECURSIVE go(_, _)
        go(c1, j) == IF j = 0 THEN 0
                     ELSE AddF(go(c1, j - 1),
                               MulF(IF labs[j] = c1 - 1 THEN 1 ELSE 0, ws[j]))
    IN  Tab(LAMBDA c1 : go(c1, Len(labs)), cls)

NoPred == <<>>

\* knn_predict(feature, feature_bank, feature_labels, classes, knn_k, knn_t):
\* the exception that ends it, or the ranking pred_labels ([B, classes])
KnnPredict(feature, fb, fl, cls, k, t, low) ==
    IF fb.kind # "tensor"
      THEN [exc |-> "TypeError", pred |-> NoPred]         \* torch.mm of a list
    ELSE LET sim == MatMul(feature, fb.val)
             B   == feature.shape[1]
             N   == sim.shape[2]
    IN  IF k < 0 \/ k > N
          THEN [exc |-> "RuntimeError", pred |-> NoPred]  \* topk: k out of range
        ELSE IF fl.kind # "tensor"
          THEN [exc |-> "AttributeError", pred |-> NoPred] \* list.expand
        ELSE LET idx == Tab(LAMBDA b : TopK(sim.data[b], k, low), B)
                 sim_labels == Tab(LAMBDA b :
                                     Tab(LAMBDA j : fl.val.data[idx[b][j]], k),
                                   B)
                 sim_weight == Tab(LAMBDA b :
                                     Tab(LAMBDA j :
                                            Weight(sim.data[b][idx[b][j]], t),
                                         k),
                                   B)
        IN  IF \E b \in 1 .. B : \E j \in 1 .. k :
                    sim_labels[b][j] \notin 0 .. cls - 1
              THEN [exc |-> "RuntimeError", pred |-> NoPred] \* scatter index
            ELSE [exc  |-> "none",
                  pred |-> Tab(LAMBDA b :
                                 Argsort(ScoreRow(sim_labels[b], sim_weight[b],
                                                  cls), low),
                               B)]

(***************************************************************************)
(* The attributes feature_bank and targets_bank.                           *)
(***************************************************************************)
Absent == [kind |-> "absent", val |-> <<>>]
ListOf(l) == [kind |-> "list", val |-> l]
TensorOf(x) == [kind |-> "tensor", val |-> x]

\* a batch is a sequence of samples <<image, label>>
ImagesOf(batch) == Tab(LAMBDA b : batch[b][1], Len(batch))
TargetsOf(batch) ==
    [shape |-> <<Len(batch)>>, data |-> Tab(LAMBDA b : batch[b][2], Len(batch))]

(***************************************************************************)
(* training_epoch_end.  fault is the place where a collaborator (the       *)
(* reference iterator, the encoder, the tensor library) raises during this *)
(* call, if any.                                                           *)
(***************************************************************************)
NoFault == [at |-> "none", i |-> 0]

Faults ==
    {NoFault, [at |-> "cat_features", i |-> 0], [at |-> "cat_targets", i |-> 0]}
    \cup {[at |-> a, i |-> i] : a \in {"fetch", "encode"}, i \in 1 .. MaxBatches}

\* the loop of lines 83-92 from batch i on, with the lists built so far
RECURSIVE RebuildLoop(_, _, _, _, _)
RebuildLoop(i, fbl, tbl, loader, fault) ==
    IF i > Len(loader) THEN [exc |-> "none", fb |-> fbl, tb |-> tbl]
    ELSE IF fault = [at |-> "fetch", i |-> i]
      THEN [exc |-> "Fault", fb |-> fbl, tb |-> tbl]
    ELSE IF fault = [at |-> "encode", i |-> i]
      THEN [exc |-> "Fault", fb |-> fbl, tb |-> tbl]
    ELSE LET feature == Squeeze(Resnet(ImagesOf(loader[i])))
         IN  IF ~CanNormalize(feature)
               THEN [exc |-> "IndexError", fb |-> fbl, tb |-> tbl]
             ELSE RebuildLoop(i + 1, Append(fbl, Normalize(feature)),
                              Append(tbl, TargetsOf(loader[i])), loader, fault)

\* training_epoch_end: the exception that ends it ("none": it returns), and
\* self.resnet.training, self.feature_bank, self.targets_bank when it ends
TrainingEpochEndResult(loader, fault) ==
    LET r == RebuildLoop(1, <<>>, <<>>, loader, fault)
        left(e) == [exc |-> e, training |-> FALSE,
                    fb |-> ListOf(r.fb), tb |-> ListOf(r.tb)]
    IN  IF r.exc # "none" THEN left(r.exc)
        ELSE IF fault.at = "cat_features" THEN left("Fault")
        ELSE IF r.fb = <<>> THEN left("RuntimeError")   \* torch.cat of no tensors
        ELSE LET bank == Transpose(Cat2(r.fb))
             IN  IF fault.at = "cat_targets"
                   THEN [exc |-> "Fault", training |-> FALSE,
                         fb |-> TensorOf(bank), tb |-> ListOf(r.tb)]
                 ELSE [exc |-> "none", training |-> TRUE,
                       fb |-> TensorOf(bank),
                       tb |-> TensorOf(Transpose(Cat1(r.tb)))]

(***************************************************************************)
(* validation_step.                                                        *)
(***************************************************************************)
None == <<>>

NotCalled == [called |-> FALSE, exc |-> "none", feature |-> <<>>, pred |-> NoPred]

\* validation_step(batch, batch_idx): the exception that ends it, the value
\* it returns (None or <<num, top1>>), and its call of knn_predict
ValidationStepOutcome(batch, fb, tb, k, t, low) ==
    IF fb.kind = "absent" \/ tb.kind = "absent"           \* hasattr, line 99
      THEN [exc |-> "none", value |-> None, knn |-> NotCalled]
    ELSE LET squeezed == Squeeze(Resnet(ImagesOf(batch)))
    IN  IF ~CanNormalize(squeezed)
          THEN [exc |-> "IndexError", value |-> None, knn |-> NotCalled]
        ELSE LET feature == Normalize(squeezed)
                 r       == KnnPredict(feature, fb, tb, classes, k, t, low)
                 call    == [called |-> TRUE, exc |-> r.exc,
                             feature |-> feature, pred |-> r.pred]
                 targets == TargetsOf(batch).data
        IN  IF r.exc # "none"
              THEN [exc |-> r.exc, value |-> None, knn |-> call]
            ELSE [exc   |-> "none",
                  value |-> <<Len(batch),
                              Cardinality({b \in 1 .. Len(batch) :
                                              r.pred[b][1] = targets[b]})>>,
                  knn   |-> call]

\* validation_step binding the batch's targets to self.targets_bank
ValidationStepRebindsTargets(batch, fb, tb, k, t, low) ==
    [out |-> ValidationStepOutcome(batch, fb, tb, k, t, low),
     fb  |-> fb,
     tb  |-> IF fb.kind = "absent" \/ tb.kind = "absent" THEN tb
             ELSE TensorOf(TargetsOf(batch))]

\* validation_step with the attributes it leaves: it assigns none
ValidationStepResult(batch, fb, tb, k, t, low) ==
    [out |-> ValidationStepOutcome(batch, fb, tb, k, t, low),
     fb  |-> fb,
     tb  |-> tb]

(***************************************************************************)
(* validation_epoch_end.                                                   *)
(***************************************************************************)
RECURSIVE Gcd(_, _)
Gcd(a, b) == IF b = 0 THEN a ELSE Gcd(b, a % b)

\* the float n / d as an exact fraction in lowest terms
Frac(n, d) == LET g == Gcd(n, d) IN <<n \div g, d \div g>>

\* a > b on fractions
FracGreater(a, b) == a[1] * b[2] > b[1] * a[2]

\* the update without its comparison
UpdateMaxAlways(acc, max) == acc

\* lines 117-118: if acc > self.max_accuracy: self.max_accuracy = acc
UpdateMax(acc, max) == IF FracGreater(acc, max) THEN acc ELSE max

\* validation_epoch_end(outputs): the exception that ends it, the accuracy
\* it computed (None when outputs is empty) and self.max_accuracy after it
ValidationEpochEndResult(outs, max) ==
    IF outs = <<>> THEN [exc |-> "none", acc |-> None, max |-> max]
    ELSE LET total_num  == SumSeq(Tab(LAMBDA i : outs[i][1], Len(outs)))
             total_top1 == SumSeq(Tab(LAMBDA i : outs[i][2], Len(outs)))
    IN  IF total_num = 0
          THEN [exc |-> "ZeroDivisionError", acc |-> None, max |-> max]
        ELSE LET acc == Frac(total_top1, total_num)
             IN  [exc |-> "none", acc |-> acc, max |-> UpdateMax(acc, max)]

(***************************************************************************)
(* training_step.                                                          *)
(***************************************************************************)
\* (math.cos(math.pi * step / total_steps) + 1) / 2 in halves, for
\* total_steps in {1, 2}, where the cosine is 1, 0 or -1
HalfCosPlusOne(s, total) ==
    LET q == (2 * s) \div total      \* the angle in quarter turns of pi / 2
    IN  CASE q % 4 = 0 -> 2
          [] q % 4 = 2 -> 0
          [] OTHER     -> 1

\* line 70: 1 - (1 - taw) * (cos(pi * step / total_steps) + 1) / 2
NextTaw(tw, s) == TawDen - ((TawDen - tw) * HalfCosPlusOne(s, TotalSteps)) \div 2

\* line 68, the right-hand side, in 1/TawDen
Blend(tp, op, tw) == tp * tw + (TawDen - tw) * op

\* lines 67-68: the loop binds its variable target_params to each blend in
\* turn; no parameter of the target network is written
UpdateTarget(target, online, tw) ==
    LET rebound == Tab(LAMBDA i : Blend(target[i], online[i], tw), Len(target))
    IN  target

(***************************************************************************)
(* Inputs.                                                                 *)
(***************************************************************************)
SeqsOf(S, lo, hi) == UNION {[1 .. n -> S] : n \in lo .. hi}

\* the reference data set and the validation data set, samples <<image, label>>
RefData == <<<<1, 0>>, <<2, 1>>>>
ValData == <<<<3, 1>>, <<4, 0>>>>

RefSamples == {RefData[i] : i \in 1 .. Len(RefData)}

\* the n samples a loader draws from data set ds from position start on, the
\* data set read in rounds
Chunk(ds, start, n) ==
    Tab(LAMBDA j : ds[((start + j - 2) % Len(ds)) + 1], n)

\* the batches of a loader over RefData whose batches have the sizes sz
LoaderOf(sz) ==
    Tab(LAMBDA i : Chunk(RefData, 1 + SumSeq(SubSeq(sz, 1, i - 1)), sz[i]),
        Len(sz))

\* every loader of up to MaxBatches batches of 1 .. MaxBatchSize samples
Loaders == {LoaderOf(sz) : sz \in SeqsOf(1 .. MaxBatchSize, 0, MaxBatches)}

\* every validation batch: the first 1 .. MaxBatchSize samples of ValData
ValBatches == {Chunk(ValData, 1, n) : n \in 1 .. MaxBatchSize}

KSet == -1 .. MaxK
TSet == {-10, 0, 5, 10}

(***************************************************************************)
(* The state after __init__ and the hooks as actions.                      *)
(***************************************************************************)
InitKnn ==
    /\ resnet_training = TRUE
    /\ feature_bank = Absent
    /\ targets_bank = Absent
    /\ max_accuracy = <<0, 1>>
    /\ outputs = <<>>
    /\ ret = [op |-> "init", exc |-> "none", value |-> None]
    /\ knn = NotCalled
    /\ ready = FALSE
    /\ pass_max = <<0, 1>>

InitNets ==
    /\ online_params = <<0, 0>>
    /\ target_params = <<0, 0>>
    /\ taw = TawDen
    /\ step = 0

\* every reference iterator, with the classifier configured for one or two
\* neighbours (every bank a rebuild stores has two columns or more)
Init ==
    /\ dataloader_kNN \in Loaders
    /\ knn_k \in 1 .. 2
    /\ knn_t = TScale
    /\ tie_low = TRUE
    /\ InitKnn
    /\ InitNets

TrainingEpochEnd(fault) ==
    /\ fault.i <= Len(dataloader_kNN)
    /\ \E r \in {TrainingEpochEndResult(dataloader_kNN, fault)} :
           /\ resnet_training' = r.training
           /\ feature_bank' = r.fb
           /\ targets_bank' = r.tb
           /\ ready' = (ready \/ r.exc = "none")
           /\ ret' = [op |-> "training_epoch_end", exc |-> r.exc, value |-> None]
    /\ UNCHANGED <<dataloader_kNN, knn_k, knn_t, tie_low, max_accuracy,
                   outputs, knn, pass_max, trainVars>>

ValidationStep(batch) ==
    /\ Len(outputs) < MaxValBatches
    /\ \E r \in {ValidationStepResult(batch, feature_bank, targets_bank,
                                     knn_k, knn_t, tie_low)} :
           /\ feature_bank' = r.fb
           /\ targets_bank' = r.tb
           /\ knn' = r.out.knn
           /\ ret' = [op |-> "validation_step", exc |-> r.out.exc,
                      value |-> r.out.value]
           \* the trainer keeps what the step returned, unless it is None
           /\ outputs' = IF r.out.exc = "none" /\ r.out.value # None
                           THEN Append(outputs, r.out.value)
                           ELSE outputs
    /\ UNCHANGED <<dataloader_kNN, knn_k, knn_t, tie_low, resnet_training,
                   max_accuracy, ready, pass_max, trainVars>>

\* the accuracy of a pass: correct predictions over samples, as a fraction
PassAccuracy(outs) ==
    LET RECURSIVE num(_), top1(_)
        num(i)  == IF i = 0 THEN 0 ELSE outs[i][1] + num(i - 1)
        top1(i) == IF i = 0 THEN 0 ELSE outs[i][2] + top1(i - 1)
    IN  Frac(top1(Len(outs)), num(Len(outs)))

\* the larger of two fractions
FracMax(a, b) == IF a[1] * b[2] >= b[1] * a[2] THEN a ELSE b

ValidationEpochEnd ==
    /\ \E r \in {ValidationEpochEndResult(outputs, max_accuracy)} :
           /\ max_accuracy' = r.max
           \* value: the accuracy the call logged, None when it logged none
           /\ ret' = [op |-> "validation_epoch_end", exc |-> r.exc,
                      value |-> r.acc]
    /\ pass_max' = IF outputs = <<>> THEN pass_max
                   ELSE FracMax(pass_max, PassAccuracy(outputs))
    /\ outputs' = <<>>          \* the trainer starts the next pass empty
    /\ knn' = NotCalled
    /\ UNCHANGED <<dataloader_kNN, knn_k, knn_t, tie_low, resnet_training,
                   feature_bank, targets_bank, ready, trainVars>>

\* training_step: lines 67-71 run, then line 72 reads the unbound name
\* `step` and the call ends by NameError
TrainingStep ==
    /\ step < MaxStep
    /\ target_params' = UpdateTarget(target_params, online_params, taw)
    /\ taw' = NextTaw(taw, step)
    /\ step' = step + 1
    /\ ret' = [op |-> "training_step", exc |-> "NameError", value |-> None]
    /\ UNCHANGED <<dataloader_kNN, knn_k, knn_t, tie_low, resnet_training,
                   feature_bank, targets_bank, max_accuracy, outputs, knn,
                   ready, pass_max, online_params>>

Next ==
    \/ \E fault \in Faults : TrainingEpochEnd(fault)
    \/ \E batch \in ValBatches : ValidationStep(batch)
    \/ ValidationEpochEnd

Spec == Init /\ [][Next]_vars

\* knn_predict as a function of its arguments: the bank and labels are those
\* a rebuild stored, the query is the normalized encoding of any images
\* ([1, D] too), classes, knn_k and knn_t are the module's
KnnCall(imgs) ==
    /\ feature_bank.kind # "absent"
    /\ targets_bank.kind # "absent"
    /\ \E feature \in {Normalize(Resnet(imgs))} :
       \E r \in {KnnPredict(feature, feature_bank, targets_bank, classes,
                            knn_k, knn_t, tie_low)} :
           /\ knn' = [called |-> TRUE, exc |-> r.exc,
                      feature |-> feature, pred |-> r.pred]
           /\ ret' = [op |-> "knn_predict", exc |-> r.exc, value |-> None]
    /\ UNCHANGED <<dataloader_kNN, knn_k, knn_t, tie_low, resnet_training,
                   feature_bank, targets_bank, max_accuracy, outputs, ready,
                   pass_max, trainVars>>

\* The classifier under every configuration, over the banks of up to MaxBank
\* reference samples (delivered as one batch); the rows of a query are
\* classified independently, so the queries are each validation image alone
\* and both together
Queries == {<<3>>, <<4>>, <<3, 4>>}

InitKnnConfigs ==
    /\ dataloader_kNN \in {<<ds>> : ds \in SeqsOf(RefSamples, 1, MaxBank)}
    /\ knn_k \in KSet
    /\ knn_t \in TSet
    /\ tie_low \in BOOLEAN
    /\ InitKnn
    /\ InitNets

NextKnn ==
    \/ TrainingEpochEnd(NoFault)
    \/ \E imgs \in Queries : KnnCall(imgs)

SpecKnn == InitKnnConfigs /\ [][NextKnn]_vars

\* The aggregator on every list of outputs: the trainer collects any value
\* <<num, top1>> a validation_step can return
OutputPairs == (1 .. MaxBatchSize) \X (0 .. MaxBatchSize)

Collect(v) ==
    /\ Len(outputs) < MaxValBatches
    /\ v[2] <= v[1]
    /\ outputs' = Append(outputs, v)
    /\ ret' = [op |-> "validation_step", exc |-> "none", value |-> v]
    /\ UNCHANGED <<dataloader_kNN, knn_k, knn_t, tie_low, resnet_training,
                   feature_bank, targets_bank, max_accuracy, knn, ready,
                   pass_max, trainVars>>

InitAgg ==
    /\ dataloader_kNN = <<>>
    /\ knn_k = 1
    /\ knn_t = TScale
    /\ tie_low = TRUE
    /\ InitKnn
    /\ InitNets

NextAgg ==
    \/ \E v \in OutputPairs : Collect(v)
    \/ ValidationEpochEnd

SpecAgg == InitAgg /\ [][NextAgg]_vars

\* training_step alone: it reads and writes only the two networks, taw and
\* step, which no other hook touches
ParamSets == [1 .. 2 -> 0 .. MaxParam]

InitTrain ==
    /\ dataloader_kNN = <<>>
    /\ knn_k = 1
    /\ knn_t = TScale
    /\ tie_low = TRUE
    /\ InitKnn
    /\ online_params \in ParamSets
    /\ target_params \in ParamSets
    /\ taw \in 0 .. TawDen
    /\ step = 0

NextTrain == TrainingStep

SpecTrain == InitTrain /\ [][NextTrain]_vars

(***************************************************************************)
(* Properties.  Every state of a behaviour lies between two hook calls,    *)
(* so an invariant speaks of what a caller or a later hook can observe.    *)
(***************************************************************************)
IsTensor(a) == a.kind = "tensor"

\* the samples of the reference iterator in iteration order
RefInOrder == Concat(dataloader_kNN)

\* column n of the stored bank
BankColumn(n) ==
    Tab(LAMBDA d : feature_bank.val.data[d][n], feature_bank.val.shape[1])

BankSize == feature_bank.val.shape[2]

\* C1: whenever the stored state can be observed, the bank and the labels
\* are both absent or are both tensors of one rebuild with the same sample
\* count; no list under construction and no bank without its labels.
C1_BankAndLabelsMatched ==
    \/ feature_bank.kind = "absent" /\ targets_bank.kind = "absent"
    \/ /\ IsTensor(feature_bank)
       /\ IsTensor(targets_bank)
       /\ BankSize = targets_bank.val.shape[1]

\* C2: with a reference iterator that yields no batch, training_epoch_end
\* returns and leaves a bank of 0 columns, a validation_step after it calls
\* no classifier, returns None and raises nothing, and validation_epoch_end
\* raises nothing.
C2_EmptyIteratorSkipsClassification ==
    dataloader_kNN = <<>> =>
        /\ (ret.op = "training_epoch_end" /\ ret.exc # "Fault") =>
              /\ ret.exc = "none"
              /\ IsTensor(feature_bank)
              /\ BankSize = 0
        /\ (ret.op = "validation_step" /\ feature_bank.kind # "absent") =>
              /\ ~knn.called
              /\ ret.exc = "none"
              /\ ret.value = None
        /\ ret.op = "validation_epoch_end" => ret.exc = "none"

\* C3: outside training_epoch_end, however it was left, the encoder is in
\* training mode.
C3_EncoderInTrainingMode == resnet_training = TRUE

\* C6: when training_epoch_end has run over an iterator of one or more
\* non-empty batches of any size, with no fault in a collaborator, the bank
\* has one column and the labels one entry per reference sample, in
\* iteration order.
C6_BankHoldsEverySample ==
    (ret.op = "training_epoch_end" /\ ret.exc # "Fault"
        /\ Len(dataloader_kNN) >= 1) =>
        /\ ret.exc = "none"
        /\ IsTensor(feature_bank)
        /\ IsTensor(targets_bank)
        /\ BankSize = Len(RefInOrder)
        /\ targets_bank.val.shape = <<Len(RefInOrder)>>
        /\ \A n \in 1 .. Len(RefInOrder) :
              /\ BankColumn(n) = NormalizeRow(RawFeature(RefInOrder[n][1]))
              /\ targets_bank.val.data[n] = RefInOrder[n][2]

\* C9: validation_step calls knn_predict only after some training_epoch_end
\* has returned normally.
C9_ClassifierOnlyWhenReady == knn.called => ready

\* C5: a call of knn_predict with knn_k > N, knn_k <= 0 or knn_t <= 0 ends
\* by an exception and returns no ranking.
C5_InvalidConfigurationFails ==
    (/\ knn.called
     /\ IsTensor(feature_bank)
     /\ IsTensor(targets_bank)
     /\ (knn_k > BankSize \/ knn_k <= 0 \/ knn_t <= 0)) =>
        /\ knn.exc # "none"
        /\ knn.pred = NoPred

\* the cosine similarity of query row b of the last call and bank column n
Cosine(b, n) ==
    LET q == knn.feature.data[b]
        c == BankColumn(n)
    IN  SumSeq(Tab(LAMBDA d : q[d] * c[d], Len(q)))

\* the sets of knn_k bank columns that are the most similar to query row b
Nearest(b) ==
    {T \in SUBSET (1 .. BankSize) :
        /\ Cardinality(T) = knn_k
        /\ \A i \in T : \A j \in (1 .. BankSize) \ T :
              Cosine(b, i) >= Cosine(b, j)}

\* the score of class c for query row b: the sum of exp(s / knn_t) over the
\* columns of T labelled c
RECURSIVE ClassScore(_, _, _)
ClassScore(b, T, c) ==
    IF T = {} THEN 0
    ELSE LET i == CHOOSE j \in T : TRUE
         IN  (IF targets_bank.val.data[i] = c
                THEN Weight(Cosine(b, i), knn_t) ELSE 0)
             + ClassScore(b, T \ {i}, c)

\* C7: on valid inputs knn_predict returns for every query row a permutation
\* of the classes 0 .. classes-1 in non-increasing order of score, the score
\* of a class being the sum of exp(s / knn_t) over those of the knn_k most
\* similar bank columns that carry its label; with knn_k = 1 the first class
\* is the label of the most similar column.
C7_RankingByWeightedVote ==
    (/\ knn.called
     /\ IsTensor(feature_bank)
     /\ IsTensor(targets_bank)
     /\ 1 <= knn_k
     /\ knn_k <= BankSize
     /\ knn_t > 0) =>
        /\ knn.exc = "none"
        /\ Len(knn.pred) = knn.feature.shape[1]
        /\ \A b \in 1 .. Len(knn.pred) :
              LET p == knn.pred[b]
              IN  /\ Len(p) = classes
                  /\ {p[i] : i \in 1 .. classes} = 0 .. classes - 1
                  /\ \E T \in Nearest(b) :
                        /\ \A i \in 1 .. classes - 1 :
                              ClassScore(b, T, p[i]) >= ClassScore(b, T, p[i + 1])
                        /\ knn_k = 1 =>
                              \A n \in T : p[1] = targets_bank.val.data[n]

\* a call on valid inputs with several neighbours whose first class is not
\* the label of the one most similar column: the weighted vote decided
C7_Witness ==
    /\ knn.called
    /\ knn.exc = "none"
    /\ IsTensor(feature_bank)
    /\ IsTensor(targets_bank)
    /\ knn_k >= 2
    /\ knn_k < BankSize
    /\ knn_t > 0
    /\ \E b \in 1 .. Len(knn.pred) : \E n \in 1 .. BankSize :
          /\ \A m \in (1 .. BankSize) \ {n} : Cosine(b, n) > Cosine(b, m)
          /\ knn.pred[b][1] # targets_bank.val.data[n]

\* C4: max_accuracy is the largest of 0 and the accuracies (correct
\* predictions over samples, summed over the batches) of the validation
\* passes completed so far that had outputs.
C4_MaxAccuracyIsBestPass == max_accuracy = pass_max

\* a pass over two batches has just ended below the best accuracy so far
C4_Witness ==
    /\ ret.op = "validation_epoch_end"
    /\ ret.value # None
    /\ FracGreater(max_accuracy, ret.value)
    /\ FracGreater(ret.value, <<1, 2>>)

SameAttr(a, b) == a.kind = b.kind /\ a.val = b.val

C10_TargetBlendedTowardOnline ==
    [][step' = step + 1 =>
          \A i \in 1 .. Len(target_params) :
              TawDen * target_params'[i]
                  = Blend(target_params[i], online_params[i], taw)]_vars

====
